---- MODULE Spec2Model ----
(***************************************************************************)
(* Model of the HR agent backend: the orchestrator (MainAgent), the SQL    *)
(* agent (SQLAgent), the policy agent's query path and the login / query   *)
(* routes of the API.                                                      *)
(*                                                                         *)
(* Text is modelled as a sequence of words (tokens).  A model reply is a   *)
(* sequence of lines, each line a sequence of words.  Substring tests of   *)
(* the code ("WHERE" in sql.upper(), user_id in sql) are tests on the      *)
(* words, with a table of the words that properly contain another word.    *)
(***************************************************************************)
EXTENDS Integers, Sequences, FiniteSets, TLC

VARIABLES
    current_user_id,    \* MainAgent.current_user_id
    current_user_role,  \* MainAgent.current_user_role
    employees,          \* the employees table of the data store, in rowid order
    is_loaded,          \* PolicyAgent.is_loaded (vectorstore present)
    loggedIn,           \* identities that have called /api/login so far
    req,                \* the request being answered by /api/query, or Idle
    call,               \* the call of a method of SQLAgent being made, or Idle
    login_otps,         \* table login_otps, in id order
    now,                \* datetime.utcnow(), in minutes
    otp,                \* the answer of /api/auth/verify-otp being returned, or Idle
    leave_requests,     \* table leave_requests, in id order
    leaves_summary,     \* table leaves_summary: one row per (employee_id, month)
    notifications,      \* table notifications, in id order
    audit_log,          \* table audit_log, in id order
    leave               \* the call of a leave or chat route being answered, or Idle

agentvars == <<current_user_id, current_user_role, employees, is_loaded, loggedIn, req, call>>

authvars == <<login_otps, now, otp>>

leavevars == <<leave_requests, leaves_summary, notifications, audit_log, leave>>

vars == <<agentvars, authvars, leavevars>>

None == "None"

(***************************************************************************)
(* Bounds of the model.                                                    *)
(***************************************************************************)
MaxRows == 3

(***************************************************************************)
(* Words and case.  str.upper() on the words whose case matters.           *)
(***************************************************************************)
UpperMap ==
    [w \in {"select", "where", "Elsewhere", "EmployeeNumber", "employeenumber",
            "employees", "Department", "Location", "from", "and"} |->
        CASE w = "select" -> "SELECT"
          [] w = "where" -> "WHERE"
          [] w = "from" -> "FROM"
          [] w = "and" -> "AND"
          [] w = "Elsewhere" -> "ELSEWHERE"
          [] w = "EmployeeNumber" -> "EMPLOYEENUMBER"
          [] w = "employeenumber" -> "EMPLOYEENUMBER"
          [] w = "employees" -> "EMPLOYEES"
          [] w = "Department" -> "DEPARTMENT"
          [] w = "Location" -> "LOCATION"]

Upper(w) == IF w \in DOMAIN UpperMap THEN UpperMap[w] ELSE w

UpperText(text) == [i \in 1..Len(text) |-> Upper(text[i])]

\* the words of the model that contain another word as a proper substring
ProperSubstrings == {<<"ELSEWHERE", "WHERE">>}

HasSubstring(w, pat) == w = pat \/ <<w, pat>> \in ProperSubstrings

\* Python's  pat in text  for a one-word pattern
Contains(text, pat) == \E i \in 1..Len(text) : HasSubstring(text[i], pat)

\* Python's  text.startswith(kw)  on the leading word
StartsWith(text, kw) == Len(text) > 0 /\ text[1] = kw

RECURSIVE Flatten(_)
Flatten(lines) ==
    IF lines = <<>> THEN <<>> ELSE Head(lines) \o Flatten(Tail(lines))

(***************************************************************************)
(* The data store: table employees, and SQLite's reading of a statement.   *)
(***************************************************************************)
Columns == {"EmployeeNumber", "Department", "Location"}

Row(id, dept, loc) == [EmployeeNumber |-> id, Department |-> dept, Location |-> loc]

InitialEmployees == <<Row("E1", "Sales", "HQ"), Row("E2", "IT", "HQ")>>

\* database.db_setup.get_employee_id_column on this schema
IdCol == "EmployeeNumber"

IsColumn(w) == \E c \in Columns : Upper(c) = Upper(w)

ColumnOf(w) == CHOOSE c \in Columns : Upper(c) = Upper(w)

\* index of the first word of text (from position from) whose upper case is in kws, or 0
RECURSIVE FirstAt(_, _, _)
FirstAt(text, kws, from) ==
    IF from > Len(text) THEN 0
    ELSE IF Upper(text[from]) \in kws THEN from
    ELSE FirstAt(text, kws, from + 1)

\* text split at every word sep (upper case)
RECURSIVE SplitOn(_, _)
SplitOn(text, sep) ==
    LET i == FirstAt(text, {sep}, 1) IN
    IF i = 0 THEN <<text>>
    ELSE <<SubSeq(text, 1, i - 1)>> \o SplitOn(SubSeq(text, i + 1, Len(text)), sep)

AtomOK(a) == Len(a) = 3 /\ IsColumn(a[1]) /\ a[2] \in {"=", "!="}

AtomHolds(row, a) ==
    IF a[2] = "=" THEN row[ColumnOf(a[1])] = a[3] ELSE row[ColumnOf(a[1])] # a[3]

\* a condition is a disjunction (OR) of conjunctions (AND) of comparisons:
\* AND binds tighter than OR
CondOK(cond) ==
    \A c \in 1..Len(SplitOn(cond, "OR")) :
        LET conj == SplitOn(SplitOn(cond, "OR")[c], "AND") IN
        \A a \in 1..Len(conj) : AtomOK(conj[a])

CondHolds(row, cond) ==
    \E c \in 1..Len(SplitOn(cond, "OR")) :
        LET conj == SplitOn(SplitOn(cond, "OR")[c], "AND") IN
        \A a \in 1..Len(conj) : AtomHolds(row, conj[a])

\* [WHERE cond] [ORDER BY expr] [LIMIT n] split into its three parts
TailParts(rest) ==
    LET o == FirstAt(rest, {"ORDER", "LIMIT"}, 1)
        front == IF o = 0 THEN rest ELSE SubSeq(rest, 1, o - 1)
        back == IF o = 0 THEN <<>> ELSE SubSeq(rest, o, Len(rest))
        l == FirstAt(back, {"LIMIT"}, 1)
        order == IF l = 0 THEN back ELSE SubSeq(back, 1, l - 1)
        limit == IF l = 0 THEN <<>> ELSE SubSeq(back, l, Len(back))
    IN [where |-> front, order |-> order, limit |-> limit]

WhereOK(w) == w = <<>> \/ (Len(w) > 1 /\ Upper(w[1]) = "WHERE" /\ CondOK(Tail(w)))

WhereHolds(row, w) == w = <<>> \/ CondHolds(row, Tail(w))

\* ORDER BY col [AND comparison ...]: a sort key expression
OrderOK(o) ==
    o = <<>> \/
    (/\ Len(o) >= 3 /\ Upper(o[1]) = "ORDER" /\ Upper(o[2]) = "BY" /\ IsColumn(o[3])
     /\ (Len(o) = 3 \/ (Upper(o[4]) = "AND" /\ CondOK(SubSeq(o, 5, Len(o))))))

\* LIMIT n: a column reference in the limit expression is an error
LimitOK(l) == l = <<>> \/ (Len(l) = 2 /\ l[2] \in {"1", "2"})

LimitOf(l) == IF l = <<>> THEN MaxRows + 1 ELSE IF l[2] = "1" THEN 1 ELSE 2

Rank(v) ==
    CASE v = "E1" -> 1 [] v = "E2" -> 2 [] v = "E3" -> 3
      [] v = "IT" -> 1 [] v = "Sales" -> 2
      [] v = "Elsewhere" -> 1 [] v = "HQ" -> 2
      [] OTHER -> 0

\* the sort key of a row: the column's value, or the truth value of
\* (text column AND ...), which is 0 for a text column
SortKey(row, o) ==
    IF o = <<>> \/ Len(o) > 3 THEN 0 ELSE Rank(row[ColumnOf(o[3])])

RECURSIVE SelectSeq2(_, _, _)
SelectSeq2(rows, w, i) ==
    IF i > Len(rows) THEN <<>>
    ELSE (IF WhereHolds(rows[i], w) THEN <<rows[i]>> ELSE <<>>) \o SelectSeq2(rows, w, i + 1)

\* stable insertion sort by sort key
RECURSIVE InsertSorted(_, _, _)
InsertSorted(sorted, row, o) ==
    IF sorted = <<>> THEN <<row>>
    ELSE IF SortKey(row, o) < SortKey(Head(sorted), o) THEN <<row>> \o sorted
    ELSE <<Head(sorted)>> \o InsertSorted(Tail(sorted), row, o)

RECURSIVE SortRows(_, _)
SortRows(rows, o) ==
    IF rows = <<>> THEN <<>>
    ELSE InsertSorted(SortRows(SubSeq(rows, 1, Len(rows) - 1), o), rows[Len(rows)], o)

Take(rows, n) == SubSeq(rows, 1, IF Len(rows) < n THEN Len(rows) ELSE n)

UpperHead(sql, n) == UpperText(SubSeq(sql, 1, IF Len(sql) < n THEN Len(sql) ELSE n))

\* SELECT * FROM employees [WHERE ...] [ORDER BY ...] [LIMIT n]
SqliteSelect(table, sql) ==
    LET p == TailParts(SubSeq(sql, 5, Len(sql))) IN
    IF /\ UpperHead(sql, 4) = <<"SELECT", "*", "FROM", "EMPLOYEES">>
       /\ WhereOK(p.where) /\ OrderOK(p.order) /\ LimitOK(p.limit)
    THEN [ok |-> TRUE,
          rows |-> Take(SortRows(SelectSeq2(table, p.where, 1), p.order), LimitOf(p.limit))]
    ELSE [ok |-> FALSE, rows |-> <<>>]

\* UPDATE employees SET Location = v [WHERE ...]
SqliteUpdate(table, sql) ==
    LET w == SubSeq(sql, 7, Len(sql)) IN
    IF /\ Len(sql) >= 6
       /\ UpperHead(sql, 5) = <<"UPDATE", "EMPLOYEES", "SET", "LOCATION", "=">>
       /\ WhereOK(w)
    THEN [ok |-> TRUE,
          table |-> [i \in 1..Len(table) |->
                       IF WhereHolds(table[i], w)
                       THEN [table[i] EXCEPT !.Location = sql[6]] ELSE table[i]],
          rowcount |-> Cardinality({i \in 1..Len(table) : WhereHolds(table[i], w)})]
    ELSE [ok |-> FALSE, table |-> table, rowcount |-> 0]

RECURSIVE Remaining(_, _, _)
Remaining(rows, w, i) ==
    IF i > Len(rows) THEN <<>>
    ELSE (IF WhereHolds(rows[i], w) THEN <<>> ELSE <<rows[i]>>) \o Remaining(rows, w, i + 1)

\* a DELETE that selects no row made an error
SqliteDelete_strict(table, sql) ==
    LET w == SubSeq(sql, 4, Len(sql)) IN
    IF /\ UpperHead(sql, 3) = <<"DELETE", "FROM", "EMPLOYEES">> /\ Len(sql) >= 3 /\ WhereOK(w)
       /\ \E i \in 1..Len(table) : WhereHolds(table[i], w)
    THEN [ok |-> TRUE, table |-> Remaining(table, w, 1),
          rowcount |-> Cardinality({i \in 1..Len(table) : WhereHolds(table[i], w)})]
    ELSE [ok |-> FALSE, table |-> table, rowcount |-> 0]

\* DELETE FROM employees [WHERE ...]
SqliteDelete(table, sql) ==
    LET w == SubSeq(sql, 4, Len(sql)) IN
    IF UpperHead(sql, 3) = <<"DELETE", "FROM", "EMPLOYEES">> /\ Len(sql) >= 3 /\ WhereOK(w)
    THEN [ok |-> TRUE, table |-> Remaining(table, w, 1),
          rowcount |-> Cardinality({i \in 1..Len(table) : WhereHolds(table[i], w)})]
    ELSE [ok |-> FALSE, table |-> table, rowcount |-> 0]

\* INSERT INTO employees VALUES id dept loc
SqliteInsert(table, sql) ==
    IF Len(sql) = 7 /\ UpperHead(sql, 4) = <<"INSERT", "INTO", "EMPLOYEES", "VALUES">>
    THEN [ok |-> TRUE, table |-> Append(table, Row(sql[5], sql[6], sql[7])), rowcount |-> 1]
    ELSE [ok |-> FALSE, table |-> table, rowcount |-> 0]

(***************************************************************************)
(* The generative model.  A call either raises or returns a reply.         *)
(***************************************************************************)
Raised == <<<<"!raised">>>>

SelectAll == <<"SELECT", "*", "FROM", "employees">>

(***************************************************************************)
(* SQLAgent                                                                *)
(***************************************************************************)
LowerMap ==
    [w \in {"Delete", "Update", "True"} |->
        CASE w = "Delete" -> "delete" [] w = "Update" -> "update" [] w = "True" -> "true"]

Lower(w) == IF w \in DOMAIN LowerMap THEN LowerMap[w] ELSE w

LowerText(text) == [i \in 1..Len(text) |-> Lower(text[i])]

\* the question's words that contain a keyword as a proper substring
KeywordSubstrings == {<<"address", "add">>, <<"assets", "set">>}

HasKeyword(text, kw) ==
    \E i \in 1..Len(text) : text[i] = kw \/ <<text[i], kw>> \in KeywordSubstrings

HasPhrase(text, w1, w2) ==
    \E i \in 1..(Len(text) - 1) : text[i] = w1 /\ text[i + 1] = w2

\* the role test dropped
NotHR_never(user_role) == FALSE

\* the role test turned round
NotHR_inverted(user_role) == user_role = "hr"

\* user_role != "hr"
NotHR(user_role) == user_role # "hr"

classify_sql_intent(nl_query, user_role) ==
    LET query_lower == LowerText(nl_query) IN
    IF NotHR(user_role) THEN "SELECT"
    ELSE IF \E k \in {"change", "update", "modify", "edit", "set", "alter"} :
           HasKeyword(query_lower, k) THEN "UPDATE"
    ELSE IF (\E k \in {"add", "create", "insert", "hire"} : HasKeyword(query_lower, k))
            \/ HasPhrase(query_lower, "new", "employee") THEN "INSERT"
    ELSE IF \E k \in {"delete", "remove", "fire", "terminate"} :
           HasKeyword(query_lower, k) THEN "DELETE"
    ELSE "SELECT"

\* the code fence lines of a reply: three backquotes followed by sql, and three backquotes
FenceSql == <<"~~~sql">>
Fence == <<"~~~">>

RECURSIVE FirstLine(_, _, _)
FirstLine(lines, set, from) ==
    IF from > Len(lines) THEN 0
    ELSE IF lines[from] \in set THEN from
    ELSE FirstLine(lines, set, from + 1)

\* sql.split(fence)[1].split(Fence)[0]
Fenced(lines, fence) ==
    LET a == FirstLine(lines, {fence}, 1)
        rest == SubSeq(lines, a + 1, Len(lines))
        b == FirstLine(rest, {Fence, FenceSql}, 1)
    IN IF b = 0 THEN rest ELSE SubSeq(rest, 1, b - 1)

SqlKeywords == {"SELECT", "UPDATE", "INSERT", "DELETE"}

RECURSIVE RStripSemicolons(_)
RStripSemicolons(text) ==
    IF text # <<>> /\ text[Len(text)] = ";"
    THEN RStripSemicolons(SubSeq(text, 1, Len(text) - 1)) ELSE text

RECURSIVE FirstStatementLine(_, _)
FirstStatementLine(lines, from) ==
    IF from > Len(lines) THEN 0
    ELSE IF Len(lines[from]) > 0 /\ Upper(lines[from][1]) \in SqlKeywords THEN from
    ELSE FirstStatementLine(lines, from + 1)

_clean_sql(reply) ==
    LET body == IF FirstLine(reply, {FenceSql}, 1) # 0 THEN Fenced(reply, FenceSql)
                ELSE IF FirstLine(reply, {Fence}, 1) # 0 THEN Fenced(reply, Fence)
                ELSE reply
        i == FirstStatementLine(body, 1)
    IN RStripSemicolons(IF i # 0 THEN body[i] ELSE Flatten(body))

\* the mark left off
Rejected_unmarked(reason, sql) == sql

Rejected(reason, sql) == <<"REJECTED_SQL:", reason>> \o sql

\* the early return for a rejected statement dropped
IsRejected_never(sql) == FALSE

\* sql.startswith("REJECTED_SQL")
IsRejected(sql) == StartsWith(sql, "REJECTED_SQL:")

\* the leading keyword test dropped
KeywordMismatch_never(sql, kw) == FALSE

\* not sql.upper().startswith(kw)
KeywordMismatch(sql, kw) == ~StartsWith(UpperText(sql), kw)

\* "WHERE" not in sql.upper()
MissingWhere(sql) == ~Contains(UpperText(sql), "WHERE")

_ensure_user_filter(sql, user_id) ==
    IF ~Contains(UpperText(sql), "WHERE")
    THEN sql \o <<"WHERE", IdCol, "=", user_id>>
    ELSE IF ~Contains(UpperText(sql), Upper(IdCol)) \/ ~Contains(sql, user_id)
    THEN sql \o <<"AND", IdCol, "=", user_id>>
    ELSE sql

generate_select_sql(reply, user_id) ==
    IF reply = Raised THEN Rejected("Generation error:", <<>>)
    ELSE LET sql == _clean_sql(reply) IN
         IF KeywordMismatch(sql, "SELECT")
         THEN Rejected("Must be SELECT statement ->", sql)
         ELSE IF user_id # None THEN _ensure_user_filter(sql, user_id) ELSE sql

generate_update_sql(reply) ==
    IF reply = Raised THEN Rejected("Generation error:", <<>>)
    ELSE LET sql == _clean_sql(reply) IN
         IF KeywordMismatch(sql, "UPDATE")
         THEN Rejected("Must be UPDATE statement ->", sql)
         ELSE IF MissingWhere(sql)
         THEN Rejected("UPDATE must have WHERE clause for safety ->", sql)
         ELSE sql

generate_insert_sql(reply) ==
    IF reply = Raised THEN Rejected("Generation error:", <<>>)
    ELSE LET sql == _clean_sql(reply) IN
         IF KeywordMismatch(sql, "INSERT")
         THEN Rejected("Must be INSERT statement ->", sql)
         ELSE sql

generate_delete_sql(reply) ==
    IF reply = Raised THEN Rejected("Generation error:", <<>>)
    ELSE LET sql == _clean_sql(reply) IN
         IF KeywordMismatch(sql, "DELETE")
         THEN Rejected("Must be DELETE statement ->", sql)
         ELSE IF MissingWhere(sql)
         THEN Rejected("DELETE must have WHERE clause for safety ->", sql)
         ELSE sql

\* what the model proposed, as _clean_sql reads it
Proposed(reply) == IF reply = Raised THEN <<>> ELSE _clean_sql(reply)

\* what a call of a synthesizer gives: the kind asked for, the method run,
\* the statement the model proposed and the statement returned
Generated(intent, reply, sql) ==
    [intent |-> intent, synthesizer |-> intent, raised |-> reply = Raised,
     proposed |-> Proposed(reply), sql |-> sql]

\* the synthesizer of a kind, called directly
generate_kind_sql(kind, reply, user_id) ==
    CASE kind = "UPDATE" -> Generated(kind, reply, generate_update_sql(reply))
      [] kind = "INSERT" -> Generated(kind, reply, generate_insert_sql(reply))
      [] kind = "DELETE" -> Generated(kind, reply, generate_delete_sql(reply))
      [] OTHER -> Generated("SELECT", reply, generate_select_sql(reply, user_id))

generate_sql(nl_query, user_id, user_role, reply) ==
    generate_kind_sql(classify_sql_intent(nl_query, user_role), reply, user_id)

\* the dictionary execute_sql returns: its keys, and the values read later
Result(keys, error, suggestion, data, operation, rows_affected) ==
    [keys |-> keys, error |-> error, suggestion |-> suggestion, data |-> data,
     count |-> Len(data), operation |-> operation, rows_affected |-> rows_affected,
     message |-> IF "message" \notin keys THEN <<>>
                 ELSE IF operation = None THEN <<"No results found">>
                 ELSE <<operation, "successful!", ToString(rows_affected),
                        "row(s) affected.">>]

NoResult == Result({}, <<>>, None, <<>>, None, 0)

\* what the store can do to a statement besides running it
StoreFaults == {"none", "unreachable", "constraint"}

IsMutation(sql) ==
    StartsWith(UpperText(sql), "UPDATE") \/ StartsWith(UpperText(sql), "INSERT")
        \/ StartsWith(UpperText(sql), "DELETE")

SqliteExecute(table, sql) ==
    CASE StartsWith(UpperText(sql), "UPDATE") -> SqliteUpdate(table, sql)
      [] StartsWith(UpperText(sql), "INSERT") -> SqliteInsert(table, sql)
      [] OTHER -> SqliteDelete(table, sql)

\* the first row lost from the table whenever a statement is run
Executed_losing(result, table, connects, submitted) ==
    [result |-> result,
     table |-> IF submitted # <<>> /\ table # <<>> THEN Tail(table) ELSE table,
     connects |-> connects, submitted |-> submitted]

\* the statement handed to the store a second time
Executed_twice(result, table, connects, submitted) ==
    [result |-> result, table |-> table, connects |-> connects,
     submitted |-> submitted \o submitted]

\* what execute_sql returns and does: the result, the table afterwards, the
\* number of connections opened and the statements handed to the store
Executed(result, table, connects, submitted) ==
    [result |-> result, table |-> table, connects |-> connects, submitted |-> submitted]

\* the role test before a mutation dropped
PermissionDenied_never(user_role) == FALSE

\* user_role != "hr" before a mutating statement is run
PermissionDenied(user_role) == user_role # "hr"

execute_sql(sql, user_role, table, fault) ==
    IF IsRejected(sql) THEN
        Executed(Result({"error"}, Tail(sql), None, <<>>, None, 0), table, 0, <<>>)
    ELSE IF fault = "unreachable" THEN
        \* sqlite3.connect raises OperationalError
        Executed(Result({"error", "sql", "suggestion"}, <<"Database error:">>,
                        "Please check column names and table structure", <<>>, None, 0),
                 table, 1, <<>>)
    ELSE IF StartsWith(UpperText(sql), "SELECT") THEN
        LET x == SqliteSelect(table, sql) IN
        IF ~x.ok THEN
            \* pandas raises DatabaseError, which is neither sqlite3 error class
            Executed(Result({"error", "sql"}, <<"Execution error:">>, None, <<>>, None, 0),
                     table, 1, <<sql>>)
        ELSE IF x.rows = <<>> THEN
            Executed(Result({"success", "message", "sql", "data", "count"},
                            <<>>, None, <<>>, None, 0), table, 1, <<sql>>)
        ELSE
            Executed(Result({"success", "sql", "data", "count", "columns"},
                            <<>>, None, x.rows, None, 0), table, 1, <<sql>>)
    ELSE IF IsMutation(sql) THEN
        IF PermissionDenied(user_role) THEN
            Executed(Result({"error", "sql"},
                            <<"Permission denied. Only HR can modify employee data.">>,
                            None, <<>>, None, 0), table, 1, <<>>)
        ELSE LET x == SqliteExecute(table, sql) IN
            IF ~x.ok THEN
                Executed(Result({"error", "sql", "suggestion"}, <<"Database error:">>,
                                "Please check column names and table structure",
                                <<>>, None, 0), table, 1, <<sql>>)
            ELSE IF fault = "constraint" THEN
                Executed(Result({"error", "sql", "suggestion"},
                                <<"Database constraint violation:">>,
                                "Check if employee ID already exists or required fields are missing",
                                <<>>, None, 0), table, 1, <<sql>>)
            ELSE
                Executed(Result({"success", "message", "sql", "rows_affected", "operation"},
                                <<>>, None, <<>>, Upper(sql[1]), x.rowcount),
                         x.table, 1, <<sql>>)
    ELSE Executed(Result({"error"}, <<"Unsupported SQL operation">>, None, <<>>, None, 0),
                  table, 1, <<>>)


(***************************************************************************)
(* PolicyAgent.query                                                       *)
(***************************************************************************)
\* what the policy agent meets: no index on disk to load, the retriever
\* returning snippets or none, the retriever raising in both the retriever
\* call and the similarity_search fallback, or the model call raising
PolicyEnvs == {"no_index", "docs", "empty", "raises", "llm_fails"}

\* the dictionary PolicyAgent.query returns (raised: an exception left query)
PolicyResult(raised, keys, error, answer, context, loaded) ==
    [raised |-> raised, keys |-> keys, error |-> error, answer |-> answer,
     context |-> context, is_loaded |-> loaded]

NoPolicy == PolicyResult(FALSE, {}, None, None, None, FALSE)

\* _build_context: the context string, "" when nothing is retrieved
_build_context(penv) == IF penv \in {"docs", "llm_fails"} THEN "snippets" ELSE ""

policy_query(loaded, penv) ==
    IF ~loaded /\ penv = "no_index" THEN
        PolicyResult(FALSE, {"error", "answer"}, "Policy database not initialized.",
                     "Policy not found - consult HR.", None, FALSE)
    ELSE IF penv = "raises" THEN
        PolicyResult(TRUE, {}, None, None, None, TRUE)
    ELSE IF penv = "llm_fails" THEN
        PolicyResult(FALSE, {"error", "answer"}, "LLM call failed:",
                     "Internal LLM error. Please try again later.",
                     _build_context(penv), TRUE)
    ELSE PolicyResult(FALSE, {"success", "answer"}, None, "bullets",
                      _build_context(penv), TRUE)

\* the calls PolicyAgent.query makes, in order
PolicyEvents(loaded, penv) ==
    IF ~loaded /\ penv = "no_index" THEN <<>>
    ELSE IF penv = "raises" THEN <<"retrieve">>
    ELSE <<"retrieve", "llm:policy">>

(***************************************************************************)
(* MainAgent                                                               *)
(***************************************************************************)
NoIntent == [agents |-> <<>>, action |-> <<"query_data">>, is_fusion |-> FALSE]

RECURSIVE ParseIntent(_, _, _)
ParseIntent(lines, i, acc) ==
    IF i > Len(lines) THEN acc
    ELSE LET line == lines[i] IN
         ParseIntent(lines, i + 1,
            IF StartsWith(line, "AGENTS:") THEN
                [acc EXCEPT !.agents =
                    @ \o (IF Contains(Tail(line), "SQL") THEN <<"SQL">> ELSE <<>>)
                      \o (IF Contains(Tail(line), "POLICY") THEN <<"POLICY">> ELSE <<>>)]
            ELSE IF StartsWith(line, "ACTION:") THEN
                [acc EXCEPT !.action = LowerText(Tail(line))]
            ELSE IF StartsWith(line, "FUSION:") THEN
                [acc EXCEPT !.is_fusion = Contains(LowerText(line), "true")]
            ELSE acc)

classify_intent(reply) ==
    LET p == ParseIntent(reply, 1, NoIntent) IN
    [agents |-> p.agents, action |-> p.action,
     is_fusion |-> p.is_fusion \/ Len(p.agents) > 1]

InSeq(x, seq) == \E i \in 1..Len(seq) : seq[i] = x

\* the branch MainAgent.query takes
RouteOf(classify_reply) ==
    IF classify_reply = Raised THEN "raised"
    ELSE LET intent == classify_intent(classify_reply) IN
         CASE intent.action = <<"generate_payslip">> -> "payslip"
           [] intent.action = <<"send_email">> -> "email"
           [] intent.is_fusion -> "fusion"
           [] InSeq("POLICY", intent.agents) -> "policy"
           [] InSeq("SQL", intent.agents) -> "sql"
           [] OTHER -> "none"

\* the string MainAgent.query returns: what kind of answer it is, the
\* sources it lists and the employee it is about
Response(kind, text, sources, target) ==
    [kind |-> kind, text |-> text, sources |-> sources, target |-> target]

\* what one call of MainAgent.query did
Outcome(route, gen, exec_role, ex, policy, response, trace) ==
    [route |-> route, gen |-> gen, exec_role |-> exec_role,
     result |-> ex.result, table |-> ex.table, connects |-> ex.connects,
     submitted |-> ex.submitted, policy |-> policy, response |-> response,
     \* the rows the answer is written from
     shown |-> IF response.kind = "narrative" THEN ex.result.data ELSE <<>>,
     \* the model call that writes the answer raised
     model_failed |-> response.kind = "exception" /\ ~policy.raised
                        /\ route \in {"sql", "fusion"},
     trace |-> trace]

NoGen == [intent |-> None, synthesizer |-> None, raised |-> FALSE, proposed |-> <<>>,
          sql |-> <<>>]

NoExec(table) == Executed(NoResult, table, 0, <<>>)

DbEvents(ex) ==
    (IF ex.connects > 0 THEN <<"db:connect">> ELSE <<>>)
        \o (IF ex.submitted # <<>> THEN <<"db:execute">> ELSE <<>>)

\* the except branch left out: the exception leaves MainAgent.query
ExceptionResponse_propagates ==
    [kind |-> "propagated", text |-> <<>>, sources |-> {}, target |-> None]

\* the except branch of MainAgent.query
ExceptionResponse == Response("exception", <<"Error processing query:">>, {}, None)

\* the model called after every result
SqlNeedsNarrative_always(ex) == TRUE

\* execute_sql_query after execute_sql: the answer and whether the model is called
SqlNeedsNarrative(ex) ==
    "error" \notin ex.result.keys /\ ex.result.operation \notin {"UPDATE", "INSERT", "DELETE"}

SqlResponse(ex, final_llm) ==
    IF "error" \in ex.result.keys THEN Response("error", ex.result.error, {}, None)
    ELSE IF ex.result.operation \in {"UPDATE", "INSERT", "DELETE"}
    THEN Response("message", ex.result.message, {}, None)
    ELSE IF ~final_llm THEN ExceptionResponse
    ELSE Response("narrative", <<"augmented">>, {"Employee Database"}, None)

\* execute_fusion_query after both agents: the sources listed with the answer
\* _format_sql_result: the data branch as the fusion prompt shows it
_format_sql_result(result) ==
    IF "error" \in result.keys THEN <<"Error:">> \o result.error
    ELSE IF "data" \in result.keys THEN result.data
    ELSE <<"No data available">>

\* the prompts of the combining calls made: none when the call is not reached
fusion_prompt(question, result, pol) ==
    IF pol = NoPolicy \/ pol.raised THEN <<>>
    ELSE <<[data |-> _format_sql_result(result),
            policy |-> IF "answer" \in pol.keys THEN pol.answer
                       ELSE "No policy information found",
            question |-> question]>>

FusionSources(ex, pol) ==
    (IF "success" \in ex.result.keys THEN {"Employee Database"} ELSE {})
        \cup (IF "source_documents" \in pol.keys THEN {"Company Policy Documents"} ELSE {})

\* the fusion route answered as execute_sql_query answers
FusionResponse_sql(ex, pol, final_llm) == SqlResponse(ex, final_llm)

FusionResponse(ex, pol, final_llm) ==
    IF pol.raised \/ ~final_llm THEN ExceptionResponse
    ELSE Response("narrative", <<"augmented">>, FusionSources(ex, pol), None)

PolicyResponse(pol) ==
    IF pol.raised THEN ExceptionResponse
    ELSE IF "error" \in pol.keys THEN Response("error", <<pol.error>>, {}, None)
    ELSE Response("policy", <<pol.answer>>, {"Company Policy Documents"}, None)

\* the employee named in the question taken under any role
DocumentTarget_any(uid, role, extract) ==
    IF extract \notin {"NONE", ""} THEN extract ELSE uid

\* handle_payslip_generation and handle_email_sending: the employee the
\* document is made for
DocumentTarget(uid, role, extract) ==
    IF role = "hr" /\ extract \notin {"NONE", ""} THEN extract ELSE uid

DocumentResponse(route, uid, role, extract, deliver) ==
    IF role = "hr" /\ extract = "!raised" THEN ExceptionResponse
    ELSE IF DocumentTarget(uid, role, extract) = None
    THEN Response("error", <<"Please specify an employee ID">>, {}, None)
    ELSE IF deliver
    THEN Response(route, <<"successfully">>, {}, DocumentTarget(uid, role, extract))
    ELSE Response("error", <<"Error">>, {}, DocumentTarget(uid, role, extract))

(***************************************************************************)
(* Inputs: the questions asked, the model's replies, the environment.      *)
(***************************************************************************)
Questions ==
    { <<"what", "is", "my", "salary">>,
      <<"Update", "my", "location">>,
      <<"add", "employee", "E3">>,
      <<"delete", "employee", "E2">> }

Where(col, op, val) == <<"WHERE", col, op, val>>

UpdateLocation == <<"UPDATE", "employees", "SET", "Location", "=", "Elsewhere">>

DeleteFrom == <<"DELETE", "FROM", "employees">>

\* replies of the model to a synthesis prompt
SynthReplies ==
    { Raised,
      <<SelectAll>>,
      <<SelectAll \o Where("Department", "=", "IT") \o <<"OR", "Department", "=", "Sales">>>>,
      <<<<"Here", "is", "the", "query">>, FenceSql,
        <<"select", "*", "from", "employees", "where", "employeenumber", "=", "E1", ";">>,
        Fence>>,
      <<UpdateLocation \o Where(IdCol, "=", "E2")>>,
      <<UpdateLocation>>,
      <<DeleteFrom \o Where(IdCol, "=", "E2")>>,
      <<DeleteFrom>>,
      <<<<"INSERT", "INTO", "employees", "VALUES", "E3", "Sales", "HQ">>>> }

\* replies of the model to the classification prompt
ClassifyReplies ==
    { Raised,
      <<<<"AGENTS:", "SQL">>, <<"ACTION:", "query_data">>, <<"FUSION:", "false">>>>,
      <<<<"AGENTS:", "POLICY">>, <<"ACTION:", "policy_question">>, <<"FUSION:", "false">>>>,
      <<<<"AGENTS:", "SQL", "POLICY">>, <<"ACTION:", "fusion_query">>, <<"FUSION:", "True">>>>,
      <<<<"AGENTS:", "SQL">>, <<"ACTION:", "generate_payslip">>, <<"FUSION:", "false">>>>,
      <<<<"AGENTS:", "SQL">>, <<"ACTION:", "send_email">>, <<"FUSION:", "false">>>>,
      <<<<"I", "am", "not", "sure">>>> }

\* replies of the model to the employee id extraction prompt
ExtractReplies == {"NONE", "E2", "!raised"}

(***************************************************************************)
(* Callers.  A caller is known by the identity it logged in with.          *)
(***************************************************************************)
Identity(role, id) == [role |-> role, id |-> id]

Anonymous == Identity(None, None)

LoginRoles == {"hr", "employee", "admin"}

LoginIds == {None, "E1"}


Idle == <<>>

Init ==
    /\ current_user_id = None
    /\ current_user_role = None
    /\ employees = InitialEmployees
    /\ is_loaded \in BOOLEAN
    /\ loggedIn = {}
    /\ req = Idle
    /\ call = Idle
    /\ login_otps = <<>>
    /\ now = 0
    /\ otp = Idle
    /\ leave_requests = <<>>
    /\ leaves_summary = {}
    /\ notifications = <<>>
    /\ audit_log = <<>>
    /\ leave = Idle

\* MainAgent.set_user
set_user(user_id, user_role) ==
    /\ current_user_id' = user_id
    /\ current_user_role' = user_role

\* POST /api/login
Login ==
    /\ req = Idle
    /\ \E role \in LoginRoles, employee_id \in LoginIds :
        IF role \notin {"hr", "employee"} \/ (role = "employee" /\ employee_id = None)
        THEN UNCHANGED <<current_user_id, current_user_role, loggedIn>>
        ELSE /\ set_user(IF role = "employee" THEN employee_id ELSE None, role)
             /\ loggedIn' = loggedIn \cup
                    {Identity(role, IF role = "employee" THEN employee_id ELSE None)}
    /\ UNCHANGED <<employees, is_loaded, req, call, authvars, leavevars>>

\* MainAgent.query returns: the request is answered
Answer(question, out) ==
    /\ Len(out.table) <= MaxRows
    /\ \E caller \in loggedIn \cup {Anonymous} :
         req' = <<[caller |-> caller, question |-> question,
                   used_id |-> current_user_id, used_role |-> current_user_role,
                   table_before |-> employees, out |-> out,
                   prompt |-> IF out.route = "fusion"
                              THEN fusion_prompt(question, out.result, out.policy)
                              ELSE <<>>]>>
    /\ employees' = out.table
    /\ is_loaded' = IF out.policy = NoPolicy THEN is_loaded ELSE out.policy.is_loaded

execute_sql_query(question) ==
    \E synth \in SynthReplies, fault \in StoreFaults, final_llm \in BOOLEAN :
    \E gen \in {generate_sql(question, current_user_id, current_user_role, synth)} :
    \E ex \in {execute_sql(gen.sql, current_user_role, employees, fault)} :
        Answer(question,
               Outcome("sql", gen, current_user_role, ex, NoPolicy,
                       SqlResponse(ex, final_llm),
                       <<"llm:classify", "llm:synth">> \o DbEvents(ex)
                           \o (IF SqlNeedsNarrative(ex) THEN <<"llm:augment">> ELSE <<>>)))

execute_fusion_query(question) ==
    \E synth \in SynthReplies, fault \in StoreFaults \ {"constraint"},
       penv \in (IF is_loaded THEN PolicyEnvs \ {"no_index"} ELSE PolicyEnvs),
       final_llm \in BOOLEAN :
    \E gen \in {generate_sql(question, current_user_id, "employee", synth)} :
    \E ex \in {execute_sql(gen.sql, "employee", employees, fault)} :
    \E pol \in {policy_query(is_loaded, penv)} :
        Answer(question,
               Outcome("fusion", gen, "employee", ex, pol,
                       FusionResponse(ex, pol, final_llm),
                       <<"llm:classify", "llm:synth">> \o DbEvents(ex)
                           \o PolicyEvents(is_loaded, penv)
                           \o (IF pol.raised THEN <<>> ELSE <<"llm:fusion">>)))

execute_policy_query(question) ==
    \E penv \in (IF is_loaded THEN PolicyEnvs \ {"no_index"} ELSE PolicyEnvs) :
    \E pol \in {policy_query(is_loaded, penv)} :
        Answer(question,
               Outcome("policy", NoGen, None, NoExec(employees), pol, PolicyResponse(pol),
                       <<"llm:classify">> \o PolicyEvents(is_loaded, penv)))

handle_document(question, route) ==
    \E extract \in ExtractReplies, deliver \in BOOLEAN :
        Answer(question,
               Outcome(route, NoGen, None, NoExec(employees), NoPolicy,
                       DocumentResponse(route, current_user_id, current_user_role,
                                        extract, deliver),
                       <<"llm:classify">>
                           \o (IF current_user_role = "hr" THEN <<"llm:extract">> ELSE <<>>)))

\* MainAgent.query(question), from the reply of the model to classify_intent
query(question) ==
    \E classify \in ClassifyReplies :
       \E route \in {RouteOf(classify)} :
          \/ /\ route = "raised"
             /\ Answer(question,
                       Outcome("raised", NoGen, None, NoExec(employees), NoPolicy,
                               ExceptionResponse, <<"llm:classify">>))
          \/ /\ route \in {"payslip", "email"}
             /\ handle_document(question, route)
          \/ /\ route = "fusion"
             /\ execute_fusion_query(question)
          \/ /\ route = "policy"
             /\ execute_policy_query(question)
          \/ /\ route = "sql"
             /\ execute_sql_query(question)
          \/ /\ route = "none"
             /\ Answer(question,
                       Outcome("none", NoGen, None, NoExec(employees), NoPolicy,
                               Response("unhandled",
                                        <<"Could not determine how to handle this query.">>,
                                        {}, None),
                               <<"llm:classify">>))

\* POST /api/query, up to the return of MainAgent.query
Query ==
    /\ req = Idle
    /\ \E question \in Questions : query(question)
    /\ UNCHANGED <<current_user_id, current_user_role, loggedIn, call, authvars, leavevars>>

\* MainAgent.query has returned
Answered == req # Idle /\ "out" \in DOMAIN req[1]

\* the query route returns its QueryResponse
Reply ==
    /\ Answered
    /\ req' = Idle
    /\ UNCHANGED <<current_user_id, current_user_role, employees, is_loaded, loggedIn, call,
                   authvars, leavevars>>

Next == Login \/ Query \/ Reply

Spec == Init /\ [][Next]_vars

(***************************************************************************)
(* The methods of SQLAgent called on their own, with any arguments.        *)
(***************************************************************************)
CallRoles == {"hr", "employee"}

CallIds == {None, "E1", "E2"}

SqlKinds == {"SELECT", "UPDATE", "INSERT", "DELETE"}

MethodOf(kind) ==
    CASE kind = "UPDATE" -> "generate_update_sql"
      [] kind = "INSERT" -> "generate_insert_sql"
      [] kind = "DELETE" -> "generate_delete_sql"
      [] OTHER -> "generate_select_sql"

\* replies of the model: those above and further shapes of SELECT
CallReplies ==
    SynthReplies \cup
    { <<SelectAll \o Where(IdCol, "=", "E2")>>,
      <<SelectAll \o Where(IdCol, "!=", "E1")>>,
      <<SelectAll \o Where("Department", "=", "IT") \o <<"ORDER", "BY", "Location">>>>,
      <<SelectAll \o <<"LIMIT", "1">>>> }

\* a call: the method, the caller it is made for (made_for, which only
\* generate_sql is given), the user_id and user_role arguments, what the
\* synthesizer gave and what execute_sql did
Called(method, made_for, user_id, user_role, gen, ex, table, fault) ==
    <<[method |-> method, made_for |-> made_for, user_id |-> user_id,
       user_role |-> user_role, gen |-> gen, ex |-> ex, table_before |-> table,
       fault |-> fault]>>

\* SQLAgent.generate_sql(nl_query, user_id, user_role)
CallGenerateSql ==
    /\ call = Idle
    /\ \E nl_query \in Questions, user_id \in CallIds, user_role \in CallRoles,
          reply \in CallReplies :
       \E gen \in {generate_sql(nl_query, user_id, user_role, reply)} :
          call' = Called("generate_sql", user_role, user_id, user_role, gen,
                         NoExec(employees), employees, "none")
    /\ UNCHANGED <<current_user_id, current_user_role, employees, is_loaded, loggedIn, req,
                   authvars, leavevars>>

\* SQLAgent.generate_update_sql(nl_query) and the three other synthesizers
CallSynthesizer ==
    /\ call = Idle
    /\ \E kind \in SqlKinds, user_id \in CallIds, made_for \in CallRoles,
          reply \in CallReplies :
       \E gen \in {generate_kind_sql(kind, reply, user_id)} :
          call' = Called(MethodOf(kind), made_for, user_id, None, gen,
                         NoExec(employees), employees, "none")
    /\ UNCHANGED <<current_user_id, current_user_role, employees, is_loaded, loggedIn, req,
                   authvars, leavevars>>

\* SQLAgent.execute_sql(sql, user_role) on the statement a synthesizer gave
CallExecuteSql ==
    /\ call # Idle
    /\ call[1].method # "execute_sql"
    /\ \E user_role \in CallRoles, fault \in StoreFaults :
       \E ex \in {execute_sql(call[1].gen.sql, user_role, employees, fault)} :
          /\ Len(ex.table) <= MaxRows
          /\ call' = Called("execute_sql", call[1].made_for, call[1].user_id, user_role,
                            call[1].gen, ex, employees, fault)
          /\ employees' = ex.table
    /\ UNCHANGED <<current_user_id, current_user_role, is_loaded, loggedIn, req,
                   authvars, leavevars>>

CallReturn ==
    /\ call # Idle
    /\ call' = Idle
    /\ UNCHANGED <<current_user_id, current_user_role, employees, is_loaded, loggedIn, req,
                   authvars, leavevars>>

NextSynth == CallGenerateSql \/ CallSynthesizer \/ CallExecuteSql \/ CallReturn

SpecSynth == Init /\ [][NextSynth]_vars

(***************************************************************************)
(* A model call that has not returned.  GeminiLLM._call hands the prompt   *)
(* to generate_content and waits for it; the route of /api/query waits for *)
(* MainAgent.query in turn.                                                *)
(***************************************************************************)
\* POST /api/query, up to the first model call (classify_intent)
Receive ==
    /\ req = Idle
    /\ \E question \in Questions :
          req' = <<[question |-> question, waiting_on |-> "llm:classify"]>>
    /\ UNCHANGED <<current_user_id, current_user_role, employees, is_loaded, loggedIn, call,
                   authvars, leavevars>>

\* GeminiLLM._call returns or raises, and MainAgent.query runs to its return
ModelReturns ==
    /\ req # Idle
    /\ ~Answered
    /\ query(req[1].question)
    /\ UNCHANGED <<current_user_id, current_user_role, loggedIn, call, authvars, leavevars>>

NextLive == Login \/ Receive \/ ModelReturns \/ Reply

\* the route returns the response once MainAgent.query has returned; nothing
\* makes generate_content return
SpecLive == Init /\ [][NextLive]_vars /\ WF_vars(Reply)

(***************************************************************************)
(* Login codes: /api/auth/request-otp, /api/auth/verify-otp, /api/login.   *)
(* The clock counts whole minutes, which strftime("%Y-%m-%d %H:%M:%S") and *)
(* strptime keep as they are.  The INSERT of request-otp gives no value to *)
(* the columns tries and used: a new row has tries 0 and is not used.      *)
(***************************************************************************)
OtpMinutes == 10

TickMinutes == 5

MaxClock == 15

MaxOtps == 2

\* config.EMAIL_USER
EMAIL_USER == "hr@mailbox"

OtpRoles == {"hr", "employee", "admin"}

OtpIds == {None, "E1", "E3"}

\* random.randint(100000, 999999)
IssuedCodes == {"111111", "222222"}

TypedCodes == IssuedCodes \cup {"12"}

\* len(code.strip())
CodeLen(code) == IF code = "12" THEN 2 ELSE 6

\* role.upper()
RoleUpper(role) ==
    CASE role = "hr" -> "HR"
      [] role = "employee" -> "EMPLOYEE"
      [] OTHER -> "ADMIN"

\* column Email of the employees
EmailOf(emp_id) == IF emp_id = "E2" THEN None ELSE "staff@mailbox"

\* _employee_info(emp_id): the rows fetchone gives (none, or one)
_employee_info(emp_id) ==
    IF \E i \in 1..Len(employees) : employees[i][IdCol] = emp_id
    THEN <<[email |-> EmailOf(emp_id)]>>
    ELSE <<>>

\* POST /api/auth/request-otp
RequestOtp ==
    /\ otp = Idle
    /\ Len(login_otps) < MaxOtps
    /\ \E role \in OtpRoles, employee_id \in OtpIds, code \in IssuedCodes :
       \E info \in {_employee_info(employee_id)} :
          IF \/ role \notin {"hr", "employee"}
             \/ /\ role = "employee"
                /\ (employee_id = None \/ info = <<>> \/ info[1].email = None)
          THEN UNCHANGED login_otps
          ELSE login_otps' = Append(login_otps,
                   [role |-> RoleUpper(role), employee_id |-> employee_id,
                    email |-> IF role = "employee" THEN info[1].email ELSE EMAIL_USER,
                    code |-> code, expires_at |-> now + OtpMinutes,
                    tries |-> 0, used |-> FALSE])
    /\ UNCHANGED <<agentvars, now, otp, leavevars>>

\* WHERE role = ? AND employee_id = ? AND code = ?  (employee), and
\* WHERE role = ? AND email = ? AND code = ?  (hr)
OtpMatches(role, employee_id, code) ==
    {i \in 1..Len(login_otps) :
        /\ login_otps[i].role = RoleUpper(role)
        /\ login_otps[i].code = code
        /\ IF role = "employee" THEN login_otps[i].employee_id = employee_id
                                ELSE login_otps[i].email = EMAIL_USER}

\* ORDER BY id DESC LIMIT 1: the id of the row, or 0 when there is none
LatestOf(ids) == IF ids = {} THEN 0 ELSE CHOOSE i \in ids : \A j \in ids : j <= i

AlreadyUsed_never(used) == FALSE

\* if used
AlreadyUsed(used) == used

\* datetime.utcnow() > datetime.strptime(expires_at, ...)
Expired(at, expires_at) == at > expires_at

\* what verify-otp answers, given the row its SELECT gave
VerifyDetail(role, employee_id, code, row) ==
    IF role \notin {"hr", "employee"} THEN "Invalid role"
    ELSE IF CodeLen(code) < 4 THEN "Invalid code"
    ELSE IF role = "employee" /\ employee_id = None THEN "Employee ID required"
    ELSE IF row = 0 THEN "Code not found"
    ELSE IF AlreadyUsed(login_otps[row].used) THEN "Code already used"
    ELSE IF Expired(now, login_otps[row].expires_at) THEN "Code expired"
    ELSE "OTP verified"

\* POST /api/auth/verify-otp
VerifyOtp ==
    /\ otp = Idle
    /\ \E role \in OtpRoles, employee_id \in OtpIds, code \in TypedCodes :
       \E row \in {IF role \in {"hr", "employee"} /\ CodeLen(code) >= 4
                       /\ ~(role = "employee" /\ employee_id = None)
                   THEN LatestOf(OtpMatches(role, employee_id, code))
                   ELSE 0} :
       \E detail \in {VerifyDetail(role, employee_id, code, row)} :
          /\ login_otps' =
                IF detail = "OTP verified"
                THEN [login_otps EXCEPT ![row] =
                         [@ EXCEPT !.tries = @ + 1, !.used = TRUE]]
                ELSE login_otps
          /\ otp' = <<[at |-> now, row |-> row, detail |-> detail,
                       before |-> login_otps]>>
    /\ UNCHANGED <<agentvars, now, leavevars>>

\* verify-otp returns its answer
OtpReturn ==
    /\ otp # Idle
    /\ otp' = Idle
    /\ UNCHANGED <<agentvars, login_otps, now, leavevars>>

\* time passes
Tick ==
    /\ now + TickMinutes <= MaxClock
    /\ now' = now + TickMinutes
    /\ UNCHANGED <<agentvars, login_otps, otp, leavevars>>

NextAuth == RequestOtp \/ VerifyOtp \/ OtpReturn \/ Tick \/ Login

SpecAuth == Init /\ [][NextAuth]_vars

(***************************************************************************)
(* Leave requests: /api/leave/apply, /api/leave/decide and the two leave   *)
(* intents of /api/chat/message (a text with neither intent is handed to   *)
(* MainAgent.query, as /api/query does).  A date is the number of a day in *)
(* a calendar of NumMonths months of DaysPerMonth days, in one year.       *)
(***************************************************************************)
NumMonths == 2

DaysPerMonth == 2

MaxLeaves == 2

\* total_quota of a new row of leaves_summary
DefaultQuota == 2

Dates == 1..(NumMonths * DaysPerMonth)

\* _get_month_year(_parse_date(d))
MonthOf(d) == ((d - 1) \div DaysPerMonth) + 1

LeaveIds == {"E1", "E3"}

\* employee_id of a chat message: not given, or given
ChatIds == {None, "E1"}

\* payload.days: not given (0), or given
GivenDays == {0, 1}

Decisions == {"approved", "REJECTED", "CANCELLED"}

\* decision.upper()
DecisionUpper(decision) == IF decision = "approved" THEN "APPROVED" ELSE decision

\* _calc_days(s, e), when the end is not before the start
_calc_days(s, e) == (e - s) + 1

\* _ensure_summary_row(employee_id, month, year)
_ensure_summary_row(summary, employee_id, month) ==
    IF \E r \in summary : r.employee_id = employee_id /\ r.month = month
    THEN summary
    ELSE summary \cup {[employee_id |-> employee_id, month |-> month,
                        total_quota |-> DefaultQuota, used_leaves |-> 0,
                        remaining_leaves |-> DefaultQuota]}

\* the loop of _recompute_leaves_summary over the days of one request
DaysInMonth(s, e, month) == Cardinality({d \in s..e : MonthOf(d) = month})

\* used_days of _recompute_leaves_summary: over the APPROVED requests of the employee
RECURSIVE used_days(_, _, _)
used_days(requests, employee_id, month) ==
    IF requests = <<>> THEN 0
    ELSE (IF Head(requests).employee_id = employee_id /\ Head(requests).status = "APPROVED"
          THEN DaysInMonth(Head(requests).start_date, Head(requests).end_date, month)
          ELSE 0)
         + used_days(Tail(requests), employee_id, month)

\* max(total_quota - used_days, 0)
remaining_leaves(total_quota, used) == IF total_quota - used > 0 THEN total_quota - used ELSE 0

\* _recompute_leaves_summary(employee_id, month, year)
_recompute_leaves_summary(summary, requests, employee_id, month) ==
    { IF r.employee_id = employee_id /\ r.month = month
      THEN [r EXCEPT !.used_leaves = used_days(requests, employee_id, month),
                     !.remaining_leaves =
                         remaining_leaves(r.total_quota, used_days(requests, employee_id, month))]
      ELSE r : r \in _ensure_summary_row(summary, employee_id, month) }

\* _ensure_summary_row and _recompute_leaves_summary for the month of a date
SummaryInSync(summary, requests, employee_id, date) ==
    _recompute_leaves_summary(_ensure_summary_row(summary, employee_id, MonthOf(date)),
                              requests, employee_id, MonthOf(date))

\* the INSERT INTO leave_requests of leave_apply and of the chat route
NewLeave(employee_id, s, e, days) ==
    [employee_id |-> employee_id, start_date |-> s, end_date |-> e, days |-> days,
     status |-> "PENDING"]

\* _notify(employee_id, audience, title, body)
_notify(employee_id, audience, title) ==
    Append(notifications, [employee_id |-> employee_id, audience |-> audience,
                           title |-> title])

\* the answer of a leave route, and the tables as they were when it was called
LeaveAnswer(route, detail) ==
    <<[route |-> route, detail |-> detail, requests_before |-> leave_requests,
       notifications_before |-> notifications, audit_before |-> audit_log]>>

\* a call that raises before it writes
LeaveRefused(route, detail) ==
    /\ leave' = LeaveAnswer(route, detail)
    /\ UNCHANGED <<leave_requests, leaves_summary, notifications, audit_log>>

\* the writes of leave_apply and of the chat route, once the days are known
LeaveSubmitted(route, action, employee_id, s, e, days) ==
    /\ Len(leave_requests) < MaxLeaves
    /\ leave_requests' = Append(leave_requests, NewLeave(employee_id, s, e, days))
    /\ notifications' = _notify(employee_id, "HR", "New leave request")
    /\ audit_log' = Append(audit_log, [action |-> action, id |-> Len(leave_requests) + 1])
    /\ leaves_summary' = SummaryInSync(leaves_summary, leave_requests', employee_id, s)
    /\ leave' = LeaveAnswer(route, "submitted")

\* POST /api/leave/apply
leave_apply ==
    /\ leave = Idle
    /\ \E employee_id \in LeaveIds, s \in Dates, e \in Dates, days \in GivenDays :
          IF _employee_info(employee_id) = <<>>
          THEN LeaveRefused("leave_apply", "Employee not found")
          ELSE IF days > 0
          THEN LeaveSubmitted("leave_apply", "LEAVE_APPLY", employee_id, s, e, days)
          ELSE IF e < s
          THEN LeaveRefused("leave_apply", "End date is before start date.")
          ELSE LeaveSubmitted("leave_apply", "LEAVE_APPLY", employee_id, s, e,
                              _calc_days(s, e))
    /\ UNCHANGED <<agentvars, authvars>>

\* POST /api/chat/message with the text  apply leave from s to e
chat_apply_leave ==
    /\ leave = Idle
    /\ \E emp_id \in ChatIds, s \in Dates, e \in Dates :
          IF emp_id = None
          THEN LeaveRefused("chat_apply", "employee_id required to apply leave")
          ELSE IF e < s
          THEN LeaveRefused("chat_apply", "Date parse error")
          ELSE LeaveSubmitted("chat_apply", "LEAVE_APPLY_CHAT", emp_id, s, e,
                              _calc_days(s, e))
    /\ UNCHANGED <<agentvars, authvars>>

\* POST /api/chat/message with the text  how many leaves left , in any month
chat_leaves_left ==
    /\ leave = Idle
    /\ \E emp_id \in ChatIds, month \in 1..NumMonths :
          IF emp_id = None
          THEN LeaveRefused("chat_leaves_left", "employee_id required for leave queries")
          ELSE /\ leaves_summary' =
                     _recompute_leaves_summary(
                         _ensure_summary_row(leaves_summary, emp_id, month),
                         leave_requests, emp_id, month)
               /\ leave' = LeaveAnswer("chat_leaves_left", "leaves_info")
               /\ UNCHANGED <<leave_requests, notifications, audit_log>>
    /\ UNCHANGED <<agentvars, authvars>>

Undecided_always(status) == TRUE

\* row[5] != "PENDING" raises Already decided
Undecided(status) == status = "PENDING"

\* POST /api/leave/decide
leave_decide ==
    /\ leave = Idle
    /\ \E request_id \in 1..(MaxLeaves + 1), decision \in Decisions :
          IF DecisionUpper(decision) \notin {"APPROVED", "REJECTED"}
          THEN LeaveRefused("leave_decide", "decision must be APPROVED or REJECTED")
          ELSE IF request_id > Len(leave_requests)
          THEN LeaveRefused("leave_decide", "Request not found")
          ELSE IF ~Undecided(leave_requests[request_id].status)
          THEN LeaveRefused("leave_decide", "Already decided")
          ELSE /\ leave_requests' =
                     [leave_requests EXCEPT ![request_id].status = DecisionUpper(decision)]
               /\ notifications' =
                     _notify(leave_requests[request_id].employee_id, "EMPLOYEE",
                             <<"Leave", DecisionUpper(decision)>>)
               /\ audit_log' = Append(audit_log, [action |-> "LEAVE_DECIDE",
                                                   id |-> request_id])
               /\ leaves_summary' =
                     IF DecisionUpper(decision) = "APPROVED"
                     THEN SummaryInSync(leaves_summary, leave_requests',
                                        leave_requests[request_id].employee_id,
                                        leave_requests[request_id].start_date)
                     ELSE leaves_summary
               /\ leave' = <<[route |-> "leave_decide", detail |-> "decided",
                              request_id |-> request_id,
                              requests_before |-> leave_requests,
                              notifications_before |-> notifications,
                              audit_before |-> audit_log]>>
    /\ UNCHANGED <<agentvars, authvars>>

\* the route returns its answer
LeaveReturn ==
    /\ leave # Idle
    /\ leave' = Idle
    /\ UNCHANGED <<agentvars, authvars, leave_requests, leaves_summary, notifications,
                   audit_log>>

NextLeave == leave_apply \/ chat_apply_leave \/ chat_leaves_left \/ leave_decide
                \/ LeaveReturn

SpecLeave == Init /\ [][NextLeave]_vars

(***************************************************************************)
(* Properties                                                              *)
(***************************************************************************)
\* the request being answered and what answering it did
Answering(routes) == req # Idle /\ req[1].out.route \in routes

Out == req[1].out

\* a statement carries the rejection mark
Marked(sql) == sql # <<>> /\ sql[1] = "REJECTED_SQL:"

LeadingKeyword(sql) == IF sql = <<>> THEN None ELSE Upper(sql[1])

\* the statement has a WHERE keyword of its own
HasWhereClause(sql) == \E i \in 1..Len(sql) : Upper(sql[i]) = "WHERE"

MutationCues == {<<"Update", "my", "location">>, <<"add", "employee", "E3">>,
                 <<"delete", "employee", "E2">>}

\* C1: whatever the question says, when the role given to generate_sql is not
\* hr the statement kind is SELECT and the SELECT synthesizer is the one run.
C1_NonHRClassifiedSelect ==
    (Answering({"sql", "fusion"}) /\ Out.exec_role # "hr")
        => (Out.gen.intent = "SELECT" /\ Out.gen.synthesizer = "SELECT")

\* an employee asks to delete an employee and the SELECT synthesizer is run
C1_Witness ==
    /\ Answering({"sql"})
    /\ req[1].used_role = "employee"
    /\ req[1].question \in MutationCues
    /\ Out.gen.synthesizer = "SELECT"
    /\ ~Marked(Out.gen.sql)

\* C2: a query sent by a caller that has logged in is answered under that
\* caller's own identifier and role, whatever other callers did in between.
C2_AnsweredAsCaller ==
    (req # Idle /\ req[1].caller \in loggedIn)
        => (req[1].used_id = req[1].caller.id /\ req[1].used_role = req[1].caller.role)

RowsOf(seq) == {seq[i] : i \in 1..Len(seq)}

\* the rows the statement the model proposed would return
ProposedRows(table, sql) ==
    IF SqliteSelect(table, sql).ok THEN RowsOf(SqliteSelect(table, sql).rows) ELSE {}

\* C3: the rows a SELECT returns for a caller who is not hr and has
\* identifier X are rows of X only, and are among the rows the proposed
\* statement returns.
C3_OwnRowsOnly ==
    (/\ Answering({"sql", "fusion"})
     /\ req[1].used_role # "hr"
     /\ req[1].used_id # None
     /\ "success" \in Out.result.keys
     /\ Out.response.kind = "narrative")
        => (/\ \A r \in RowsOf(Out.result.data) : r[IdCol] = req[1].used_id
            /\ RowsOf(Out.result.data)
                   \subseteq ProposedRows(req[1].table_before, Out.gen.proposed))

MissingWhereReasons ==
    {"UPDATE must have WHERE clause for safety ->",
     "DELETE must have WHERE clause for safety ->"}

\* C4: a statement returned unmarked by the UPDATE or DELETE synthesizer has a
\* WHERE clause; an UPDATE or DELETE proposed without one comes back marked
\* as rejected for the missing clause and is not handed to the store.
C4_MutationHasWhere ==
    (Answering({"sql"}) /\ Out.gen.synthesizer \in {"UPDATE", "DELETE"} /\ ~Out.gen.raised)
        => (/\ ~Marked(Out.gen.sql) => HasWhereClause(Out.gen.sql)
            /\ (/\ LeadingKeyword(Out.gen.proposed) = Out.gen.synthesizer
                /\ ~HasWhereClause(Out.gen.proposed))
                   => (/\ Marked(Out.gen.sql)
                       /\ Out.gen.sql[2] \in MissingWhereReasons
                       /\ Out.submitted = <<>>))

\* a call of execute_sql on a statement that begins UPDATE, INSERT or DELETE
ExecutingMutation ==
    /\ call # Idle
    /\ call[1].method = "execute_sql"
    /\ LeadingKeyword(call[1].gen.sql) \in {"UPDATE", "INSERT", "DELETE"}

DeniedText == <<"Permission denied. Only HR can modify employee data.">>

\* C5 as stated: under a role other than hr a mutating statement is not
\* applied and the answer is always the permission error.
C5_AlwaysPermissionError ==
    ExecutingMutation
        => (/\ call[1].ex.submitted # <<>> => call[1].user_role = "hr"
            /\ call[1].user_role # "hr"
                   => (/\ call[1].ex.result.error = DeniedText
                       /\ call[1].ex.table = call[1].table_before))

\* C5: execute_sql hands a mutating statement to the store only under role
\* hr; under any other role the table is unchanged and the result is an
\* error, which is the permission error whenever the connection opened.
C5_MutationOnlyForHR ==
    ExecutingMutation
        => (/\ call[1].ex.submitted # <<>> => call[1].user_role = "hr"
            /\ call[1].user_role # "hr"
                   => (/\ "error" \in call[1].ex.result.keys
                       /\ call[1].fault # "unreachable"
                              => call[1].ex.result.error = DeniedText
                       /\ call[1].ex.submitted = <<>>
                       /\ call[1].ex.table = call[1].table_before
                       /\ employees = call[1].table_before))

\* a DELETE is executed under role employee and refused
C5_Witness ==
    /\ ExecutingMutation
    /\ call[1].user_role = "employee"
    /\ LeadingKeyword(call[1].gen.sql) = "DELETE"
    /\ call[1].ex.result.error = DeniedText

\* C6: when the statement the model proposed does not begin with the keyword
\* of the synthesizer that asked for it, the synthesizer returns it marked as
\* rejected, and no marked statement is handed to the store.
C6_KeywordMismatchRejected ==
    Answering({"sql", "fusion"})
        => (/\ (~Out.gen.raised /\ LeadingKeyword(Out.gen.proposed) # Out.gen.synthesizer)
                   => (Marked(Out.gen.sql) /\ Out.submitted = <<>>)
            /\ Marked(Out.gen.sql) => Out.submitted = <<>>)

\* the model answers a question classified SELECT with a DELETE statement
C6_Witness ==
    /\ Answering({"sql"})
    /\ Out.gen.synthesizer = "SELECT"
    /\ LeadingKeyword(Out.gen.proposed) = "DELETE"
    /\ Marked(Out.gen.sql)
    /\ Out.submitted = <<>>

\* the synthesizers other than generate_select_sql
MutatingSynthesizers ==
    {"generate_update_sql", "generate_insert_sql", "generate_delete_sql"}

\* C7: generate_update_sql, generate_insert_sql and generate_delete_sql
\* return the statement marked as rejected when the caller it is made for is
\* not hr.
C7_SynthesizerChecksRole ==
    (call # Idle /\ call[1].method \in MutatingSynthesizers /\ call[1].made_for # "hr")
        => Marked(call[1].gen.sql)

\* C8: execute_sql given a marked statement returns an error result, opens no
\* connection, hands nothing to the store and leaves the table as it was.
C8_RejectedNotExecuted ==
    (Answering({"sql", "fusion"}) /\ Marked(Out.gen.sql))
        => (/\ Out.result.keys = {"error"}
            /\ Out.connects = 0
            /\ Out.submitted = <<>>
            /\ "db:connect" \notin RowsOf(Out.trace)
            /\ Out.table = req[1].table_before
            /\ employees = req[1].table_before)

\* a DELETE without WHERE is marked by generate_delete_sql and execute_sql
\* returns its reason as the error
C8_Witness ==
    /\ Answering({"sql"})
    /\ Out.gen.synthesizer = "DELETE"
    /\ Marked(Out.gen.sql)
    /\ Out.gen.sql[2] \in MissingWhereReasons
    /\ Out.result.error = Tail(Out.gen.sql)
    /\ Out.response.kind = "error"

\* C9: the sources of a fusion answer hold the employee database exactly when
\* execute_sql succeeded and the policy documents exactly when the context
\* retrieved is not empty.
C9_FusionSources ==
    (Answering({"fusion"}) /\ Out.response.kind = "narrative")
        => (/\ "Employee Database" \in Out.response.sources
                   <=> "success" \in Out.result.keys
            /\ "Company Policy Documents" \in Out.response.sources
                   <=> Out.policy.context \notin {None, ""})

DataFailed == "error" \in Out.result.keys

PolicyFailed == Out.policy.raised \/ "error" \in Out.policy.keys

\* C10: a fusion request in which exactly one of the two agents fails is
\* answered with a narrative, unless the model call that writes it raises.
C10_FusionBestEffort ==
    (/\ Answering({"fusion"})
     /\ DataFailed # PolicyFailed
     /\ ~Out.model_failed)
        => Out.response.kind = "narrative"

\* C11: when the model call that writes the narrative raises, the request is
\* still answered from the result execute_sql gave: the answer is not the
\* failure message and the rows fetched are in it.
C11_NarrativeFailureDegrades ==
    (Answering({"sql", "fusion"}) /\ Out.model_failed)
        => (Out.response.kind # "exception" /\ Out.shown = Out.result.data)

ResponseKinds ==
    {"narrative", "message", "error", "policy", "payslip", "email", "unhandled",
     "exception"}

\* a call made while answering raised
SomethingRaised ==
    \/ Out.route = "raised"
    \/ Out.policy.raised
    \/ Out.model_failed
    \/ (Out.gen.synthesizer # None /\ Out.gen.raised)

\* C12: MainAgent.query returns a message for every request, whichever of the
\* classifier, synthesizer, store, retrieval or narrative calls failed; a
\* failure is answered with an error message.
C12_AlwaysReturnsMessage ==
    req # Idle
        => (/\ Out.response.kind \in ResponseKinds
            /\ Out.response.text # <<>>
            /\ (SomethingRaised \/ "error" \in Out.result.keys)
                   => (\/ Out.response.kind \in {"error", "exception"}
                       \/ Out.route = "fusion"))

\* the classifier call raises and the request is answered with the failure message
C12_Witness ==
    /\ Answering({"raised"})
    /\ Out.response.kind = "exception"
    /\ Out.response.text = <<"Error processing query:">>

\* C13: when the model call of a synthesizer raises, the statement returned is
\* marked rejected with a generation error, and for that request nothing is
\* handed to the store and the table is left as it was.
C13_GenerationErrorRejected ==
    (Answering({"sql", "fusion"}) /\ Out.gen.raised)
        => (/\ Marked(Out.gen.sql)
            /\ Out.gen.sql[2] = "Generation error:"
            /\ Out.connects = 0
            /\ Out.submitted = <<>>
            /\ employees = req[1].table_before)

\* hr asks for a deletion and the model call of generate_delete_sql raises
C13_Witness ==
    /\ Answering({"sql"})
    /\ req[1].used_role = "hr"
    /\ Out.gen.synthesizer = "DELETE"
    /\ Out.gen.raised
    /\ Out.result.error = <<"Generation error:">>

LastOf(seq) == seq[Len(seq)]

\* C14: in execute_sql_query, when execute_sql applied a mutation, its message
\* is the answer as it stands and the last call made is the one to the store.
C14_MutationMessageVerbatim ==
    (Answering({"sql"}) /\ Out.result.operation \in {"UPDATE", "INSERT", "DELETE"})
        => (/\ Out.response.kind = "message"
            /\ Out.response.text = Out.result.message
            /\ Out.response.text # <<>>
            /\ "llm:augment" \notin RowsOf(Out.trace)
            /\ LastOf(Out.trace) = "db:execute")

\* hr deletes employee E2
C14_Witness ==
    /\ Answering({"sql"})
    /\ Out.result.operation = "DELETE"
    /\ Out.result.rows_affected = 1
    /\ Len(employees) < Len(req[1].table_before)
    /\ Out.response.kind = "message"

Executing == call # Idle /\ call[1].method = "execute_sql"

ExecutionErrors ==
    {<<"Database constraint violation:">>, <<"Database error:">>, <<"Execution error:">>}

OtherErrors == {DeniedText, <<"Unsupported SQL operation">>}

\* C15: an error raised while execute_sql works on a statement gives one of
\* the three error results (constraint violation, database error, execution
\* error) and each of them has a suggestion.
C15_FailureHasSuggestion ==
    (/\ Executing
     /\ call[1].ex.connects > 0
     /\ "error" \in call[1].ex.result.keys
     /\ call[1].ex.result.error \notin OtherErrors)
        => (/\ call[1].ex.result.error \in ExecutionErrors
            /\ "suggestion" \in call[1].ex.result.keys
            /\ call[1].ex.result.suggestion # None)

\* the WHERE clause of a statement of the three forms that have one
SelectionOf(sql) ==
    CASE LeadingKeyword(sql) = "SELECT" -> TailParts(SubSeq(sql, 5, Len(sql))).where
      [] LeadingKeyword(sql) = "UPDATE" -> SubSeq(sql, 7, Len(sql))
      [] OTHER -> SubSeq(sql, 4, Len(sql))

\* a statement the store accepts
WellFormed(sql) ==
    CASE LeadingKeyword(sql) = "SELECT" -> SqliteSelect(<<>>, sql).ok
      [] LeadingKeyword(sql) = "UPDATE" -> SqliteUpdate(<<>>, sql).ok
      [] LeadingKeyword(sql) = "DELETE" ->
            UpperHead(sql, 3) = <<"DELETE", "FROM", "EMPLOYEES">>
                /\ WhereOK(SubSeq(sql, 4, Len(sql)))
      [] OTHER -> FALSE

\* the statement has a WHERE clause and no row of the table satisfies it
NoRowSelected(table, sql) ==
    /\ WellFormed(sql)
    /\ SelectionOf(sql) # <<>>
    /\ \A i \in 1..Len(table) : ~WhereHolds(table[i], SelectionOf(sql))

\* C16: a SELECT that no row satisfies gives success with count 0, and an
\* UPDATE or DELETE under role hr that no row satisfies gives success with 0
\* rows affected; neither is an error.
C16_ZeroRowsIsSuccess ==
    (/\ Executing
     /\ call[1].fault = "none"
     /\ NoRowSelected(call[1].table_before, call[1].gen.sql))
        => (/\ LeadingKeyword(call[1].gen.sql) = "SELECT"
                   => (/\ "success" \in call[1].ex.result.keys
                       /\ "error" \notin call[1].ex.result.keys
                       /\ call[1].ex.result.data = <<>>
                       /\ call[1].ex.result.count = 0)
            /\ (LeadingKeyword(call[1].gen.sql) \in {"UPDATE", "DELETE"}
                    /\ call[1].user_role = "hr")
                   => (/\ "success" \in call[1].ex.result.keys
                       /\ "error" \notin call[1].ex.result.keys
                       /\ call[1].ex.result.rows_affected = 0
                       /\ employees = call[1].table_before))

\* hr deletes employee E2 when the table no longer has E2
C16_Witness ==
    /\ Executing
    /\ call[1].user_role = "hr"
    /\ call[1].fault = "none"
    /\ LeadingKeyword(call[1].gen.sql) = "DELETE"
    /\ NoRowSelected(call[1].table_before, call[1].gen.sql)
    /\ "success" \in call[1].ex.result.keys
    /\ call[1].ex.result.rows_affected = 0

\* C17: every request is classified and routed; a reply of the classifier
\* that names no agent, like a question with no cue, is routed to the data path.
C17_AlwaysRouted ==
    req # Idle
        => (/\ Out.route \notin {"raised", "none"}
            /\ Out.response.kind \notin {"unhandled"})

AnswerKinds(route) ==
    CASE route = "sql" -> {"narrative", "message", "error", "exception"}
      [] route = "policy" -> {"policy", "error", "exception"}
      [] route = "fusion" -> {"narrative", "exception"}
      [] route \in {"payslip", "email"} -> {route, "error", "exception"}
      [] route = "none" -> {"unhandled"}
      [] OTHER -> {"exception"}

C19_NoRetry ==
    Answering({"sql", "fusion"})
        => (/\ Len(Out.submitted) <= 1
            /\ Out.connects <= 1
            /\ Len(employees) <= Len(req[1].table_before) + 1
            /\ (Out.route = "sql" /\ "error" \in Out.result.keys)
                   => (/\ Out.response.kind = "error"
                       /\ Out.response.text = Out.result.error
                       /\ employees = req[1].table_before))

\* an INSERT meets a constraint violation: it was handed to the store once and
\* the error is the answer
C19_Witness ==
    /\ Answering({"sql"})
    /\ Out.result.error = <<"Database constraint violation:">>
    /\ Len(Out.submitted) = 1
    /\ LeadingKeyword(Out.submitted[1]) = "INSERT"
    /\ Out.response.kind = "error"

\* a WHERE clause with OR, or with a negated test of the identity column
AmbiguousShape(sql) ==
    /\ HasWhereClause(sql)
    /\ \/ \E i \in 1..Len(sql) : Upper(sql[i]) = "OR"
       \/ \E i \in 1..(Len(sql) - 1) : Upper(sql[i]) = Upper(IdCol) /\ sql[i + 1] = "!="

\* C20: a SELECT proposed for a caller with an identifier whose WHERE clause
\* has an ambiguous shape comes back from generate_select_sql marked rejected.
C20_AmbiguousRejected ==
    (/\ Answering({"sql", "fusion"})
     /\ req[1].used_id # None
     /\ Out.gen.synthesizer = "SELECT"
     /\ ~Out.gen.raised
     /\ LeadingKeyword(Out.gen.proposed) = "SELECT"
     /\ AmbiguousShape(Out.gen.proposed))
        => Marked(Out.gen.sql)

Count(seq, x) == Cardinality({i \in 1..Len(seq) : seq[i] = x})

\* C21: answering a fusion request makes the combining model call exactly
\* once, after the calls of both agents, with a prompt that holds the result
\* of execute_sql, the answer of the policy agent and the question.
C21_FusionJoin ==
    Answering({"fusion"})
        => (/\ Count(Out.trace, "llm:fusion") = 1
            /\ LastOf(Out.trace) = "llm:fusion"
            /\ Len(req[1].prompt) = 1
            /\ req[1].prompt[1].question = req[1].question
            /\ req[1].prompt[1].policy = Out.policy.answer
            /\ "success" \in Out.result.keys => req[1].prompt[1].data = Out.result.data
            /\ "error" \in Out.result.keys
                   => req[1].prompt[1].data = <<"Error:">> \o Out.result.error)

FiltersOn(sql, user_id) ==
    \E i \in 1..(Len(sql) - 2) :
        Upper(sql[i]) = Upper(IdCol) /\ sql[i + 1] = "=" /\ sql[i + 2] = user_id

\* C24: a SELECT handed to the store while the current role is not hr tests the
\* identity column against the current identifier, in every state reached,
\* the state before any login included.
C24_NonHRSelectFiltered ==
    (/\ Answering({"sql", "fusion"})
     /\ req[1].used_role # "hr"
     /\ Out.submitted # <<>>
     /\ LeadingKeyword(Out.submitted[1]) = "SELECT")
        => (/\ req[1].used_id # None
            /\ FiltersOn(Out.submitted[1], req[1].used_id))

\* C26: a fusion request leaves the table as it was under every role and
\* question: the SELECT synthesizer is the one run and only a SELECT is handed
\* to the store.
C26_FusionReadOnly ==
    Answering({"fusion"})
        => (/\ employees = req[1].table_before
            /\ Out.gen.synthesizer = "SELECT"
            /\ \A i \in 1..Len(Out.submitted) : LeadingKeyword(Out.submitted[i]) = "SELECT")

\* hr asks in a fusion request to delete an employee and the model proposes a DELETE
C26_Witness ==
    /\ Answering({"fusion"})
    /\ req[1].used_role = "hr"
    /\ req[1].question = <<"delete", "employee", "E2">>
    /\ LeadingKeyword(Out.gen.proposed) = "DELETE"
    /\ Out.submitted = <<>>

\* C30: when the current role is not hr, a payslip made or mailed is that of
\* the current identifier, whatever the question names; only under role hr is
\* it that of another employee.
C30_PayslipOwnTarget ==
    Answering({"payslip", "email"})
        => (/\ req[1].used_role # "hr" => Out.response.target = req[1].used_id
            /\ Out.response.target # req[1].used_id => req[1].used_role = "hr"
            /\ (req[1].used_role # "hr" /\ req[1].used_id = None)
                   => Out.response.kind = "error")

\* employee E1 asks for a payslip and gets its own
C30_Witness ==
    /\ Answering({"payslip"})
    /\ req[1].used_role = "employee"
    /\ req[1].used_id = "E1"
    /\ Out.response.kind = "payslip"
    /\ Out.response.target = "E1"

\* C22: a request that /api/query has received is answered in the end,
\* whether or not the model call it waits for returns.
C22_EveryRequestAnswered == (req # Idle) ~> Answered

\* C25: the orchestrator holds a role only when a login code of that role
\* (and, for an employee, of that employee) has been verified.
C25_ContextNeedsVerifiedCode ==
    current_user_role # None
        => \E i \in 1..Len(login_otps) :
              /\ login_otps[i].used
              /\ login_otps[i].role = RoleUpper(current_user_role)
              /\ current_user_role = "employee"
                     => login_otps[i].employee_id = current_user_id

OtpAccepted == otp # Idle /\ otp[1].detail = "OTP verified"

\* C27: verify-otp accepts a row of login_otps at most once and never after
\* its expiry time, and a verification it rejects leaves login_otps as it was.
C27_CodeSingleUseTimeLimited ==
    /\ \A i \in 1..Len(login_otps) : login_otps[i].tries <= 1
    /\ OtpAccepted
           => /\ ~otp[1].before[otp[1].row].used
              /\ otp[1].before[otp[1].row].tries = 0
              /\ otp[1].at <= otp[1].before[otp[1].row].expires_at
    /\ (otp # Idle /\ ~OtpAccepted) => login_otps = otp[1].before

\* a code was verified, and typing it a second time was rejected
C27_Witness ==
    /\ otp # Idle
    /\ otp[1].detail = "Code already used"
    /\ login_otps[otp[1].row].tries = 1
    /\ \E i \in 1..Len(login_otps) : ~login_otps[i].used /\ login_otps[i].expires_at < now

\* the requests whose status a call changed
StatusChanged ==
    {i \in 1..Len(leave[1].requests_before) :
        leave_requests[i].status # leave[1].requests_before[i].status}

\* the requests that were there are as they were, but for their status
OnlyStatusMayDiffer ==
    /\ Len(leave_requests) >= Len(leave[1].requests_before)
    /\ \A i \in 1..Len(leave[1].requests_before) :
           [leave_requests[i] EXCEPT !.status = "PENDING"]
               = [leave[1].requests_before[i] EXCEPT !.status = "PENDING"]

\* C28: a call changes the status of a request only when it is leave_decide
\* on a PENDING request with APPROVED or REJECTED, so that a status changes
\* at most once; a leave_decide that is refused leaves leave_requests,
\* notifications and audit_log as they were.
C28_DecidedOnce ==
    leave # Idle
        => /\ OnlyStatusMayDiffer
           /\ \A i \in StatusChanged :
                 /\ leave[1].route = "leave_decide"
                 /\ leave[1].detail = "decided"
                 /\ leave[1].request_id = i
                 /\ leave[1].requests_before[i].status = "PENDING"
                 /\ leave_requests[i].status \in {"APPROVED", "REJECTED"}
           /\ (leave[1].route = "leave_decide" /\ leave[1].detail # "decided")
                 => /\ leave_requests = leave[1].requests_before
                    /\ notifications = leave[1].notifications_before
                    /\ audit_log = leave[1].audit_before

\* a request that was decided is decided again, and the call is refused
C28_Witness ==
    /\ leave # Idle
    /\ leave[1].route = "leave_decide"
    /\ leave[1].detail = "Already decided"
    /\ \E i \in 1..Len(leave_requests) : leave_requests[i].status = "APPROVED"
    /\ \E i \in 1..Len(leave_requests) : leave_requests[i].status = "REJECTED"

\* the days of the APPROVED requests of an employee that fall in a month
ApprovedDays(employee_id, month) ==
    Cardinality({<<i, d>> \in (1..Len(leave_requests)) \X Dates :
                    /\ leave_requests[i].employee_id = employee_id
                    /\ leave_requests[i].status = "APPROVED"
                    /\ leave_requests[i].start_date <= d
                    /\ d <= leave_requests[i].end_date
                    /\ MonthOf(d) = month})

\* C29: when leave_apply, the chat application or leave_decide has answered,
\* every row of leaves_summary has used_leaves equal to the days of the
\* employee's APPROVED requests in its month, and remaining_leaves equal to
\* max(total_quota - used_leaves, 0).
C29_SummaryConsistent ==
    (leave # Idle /\ leave[1].route \in {"leave_apply", "chat_apply", "leave_decide"})
        => \A r \in leaves_summary :
              /\ r.used_leaves = ApprovedDays(r.employee_id, r.month)
              /\ r.remaining_leaves
                     = (IF r.total_quota > r.used_leaves
                        THEN r.total_quota - r.used_leaves ELSE 0)

====
